---------------------------- MODULE Spec2Model ----------------------------
(***************************************************************************)
(* pypesto.problem.Problem: the bookkeeping of free and fixed parameters   *)
(* and the projections between the full and the reduced parameter space.  *)
(*                                                                         *)
(* Arrays are sequences (1-based positions, holding numpy's 0-based index  *)
(* i at position i+1).  A 2-D array is a record [shape, v] whose v is the  *)
(* sequence of its rows.  Floats are integers, with one value for NaN.     *)
(* An optional argument is <<>> (None) or <<value>>.                       *)
(***************************************************************************)
EXTENDS Integers, Sequences, FiniteSets, TLC

\* ------------------------------------------------------------ bounds
\* the largest dim_full a construction is given
MaxDim == 3
\* the longest index list handed to fix_parameters / unfix_parameters
MaxArgs == 2
\* the largest number of rows of a batch handed to get_full_vector
MaxRows == 3
\* the longest list of fixed indices a construction is given
MaxInitFixed == 1
\* the largest dim_full, and the longest index or value list, where calls
\* are made with any integers and with lists of any length
MaxAnyDim == 2
MaxAnyArgs == 1

\* np.nan
nan == -1
\* the values a caller passes for parameters, bounds and fixed values
Vals == {0, 1}
Floats == Vals \cup {nan}
\* what np.empty may hold at a position it never wrote
Garbage == {0, nan}

None == <<>>
Some(x) == <<x>>

NoError == "None"

\* ------------------------------------------------------------ helpers
Range(s) == {s[k] : k \in DOMAIN s}

SeqsOfLen(S, n) == [1..n -> S]

SeqsUpTo(S, n) == UNION {[1..k -> S] : k \in 0..n}

\* sequences without repetition
InjSeqsUpTo(S, n) == {s \in SeqsUpTo(S, n) : \A a, b \in DOMAIN s : s[a] = s[b] => a = b}

\* list.index(x): the first position (1-based here) holding x
index(s, x) == CHOOSE k \in DOMAIN s : s[k] = x /\ \A j \in 1..(k-1) : s[j] # x

\* list.pop(i) for a 1-based position i of s
pop(s, i) == [k \in 1..(Len(s)-1) |-> IF k < i THEN s[k] ELSE s[k+1]]

\* CPython's sorted() on a set of integers
RECURSIVE sorted(_)
sorted(S) ==
    IF S = {} THEN <<>>
    ELSE LET m == CHOOSE x \in S : \A y \in S : x <= y
         IN  <<m>> \o sorted(S \ {m})

\* ------------------------------------------------------------ numpy
\* a[idxs] for an integer index list: negative indices wrap, others raise
NpIndexOK(n, i) == -n <= i /\ i < n

NpPos(n, i) == IF i < 0 THEN i + n + 1 ELSE i + 1

NpTake(a, idxs) ==
    IF \E k \in DOMAIN idxs : ~NpIndexOK(Len(a), idxs[k])
    THEN [raised |-> "IndexError", v |-> <<>>]
    ELSE [raised |-> NoError, v |-> [k \in DOMAIN idxs |-> a[NpPos(Len(a), idxs[k])]]]

\* a[idxs] = vals: vals broadcasts when it has one element; a repeated index
\* keeps the last value written
NpPut(a, idxs, vals) ==
    IF Len(vals) # Len(idxs) /\ Len(vals) # 1
    THEN [raised |-> "ValueError", v |-> a]
    ELSE IF \E k \in DOMAIN idxs : ~NpIndexOK(Len(a), idxs[k])
    THEN [raised |-> "IndexError", v |-> a]
    ELSE LET val(k) == IF Len(vals) = 1 THEN vals[1] ELSE vals[k]
             hits(p) == {k \in DOMAIN idxs : NpPos(Len(a), idxs[k]) = p}
             last(p) == CHOOSE k \in hits(p) : \A j \in hits(p) : j <= k
         IN  [raised |-> NoError,
              v |-> [p \in DOMAIN a |-> IF hits(p) = {} THEN a[p] ELSE val(last(p))]]

\* a[..., idxs] = b for 2-D arrays a and b with the same number of rows: b
\* broadcasts along the last axis when it has one column
NpPutCols(a, idxs, b) ==
    IF b.shape[2] # Len(idxs) /\ b.shape[2] # 1
    THEN [raised |-> "ValueError", v |-> a]
    ELSE [raised |-> NoError,
          v |-> [shape |-> a.shape,
                 v |-> [r \in DOMAIN a.v |-> NpPut(a.v[r], idxs, b.v[r]).v]]]

\* np.ones / np.zeros / a NaN-filled array
Filled(n, x) == [k \in 1..n |-> x]

Filled2(r, c, x) == [shape |-> <<r, c>>, v |-> [k \in 1..r |-> Filled(c, x)]]


\* x_full[..., idxs] = vals for a 2-D array x_full and a 1-D vals: every row
\* receives vals
NpPutEachRow(a, idxs, vals) ==
    IF a.shape[1] = 0
    THEN [raised |-> NpPut(Filled(a.shape[2], nan), idxs, vals).raised, v |-> a]
    ELSE [raised |-> NpPut(a.v[1], idxs, vals).raised,
          v |-> [shape |-> a.shape,
                 v |-> [r \in DOMAIN a.v |-> NpPut(a.v[r], idxs, vals).v]]]

\* ------------------------------------------------------------ state
VARIABLES
    pc,               \* "new": not constructed; "ready": a Problem, no call under way;
                      \* "called": a call has just ended; "failed": __init__ raised
    dim_full,
    lb_full,
    ub_full,
    x_fixed_indices,
    x_fixed_vals,
    x_guesses_full,
    x_names,
    x_scales,
    call,             \* the last call and its arguments
    ret,              \* what the last call returned or raised
    updates,          \* what update_from_problem received during the last call
    pre               \* the Problem's fields when the last call began

fields == <<dim_full, lb_full, ub_full, x_fixed_indices, x_fixed_vals,
            x_guesses_full, x_names, x_scales>>

vars == <<pc, dim_full, lb_full, ub_full, x_fixed_indices, x_fixed_vals,
          x_guesses_full, x_names, x_scales, call, ret, updates, pre>>

\* the Problem's fields as one record
Self ==
    [dim_full |-> dim_full, lb_full |-> lb_full, ub_full |-> ub_full,
     x_fixed_indices |-> x_fixed_indices, x_fixed_vals |-> x_fixed_vals,
     x_guesses_full |-> x_guesses_full, x_names |-> x_names, x_scales |-> x_scales]

Store(self) ==
    /\ dim_full' = self.dim_full
    /\ lb_full' = self.lb_full
    /\ ub_full' = self.ub_full
    /\ x_fixed_indices' = self.x_fixed_indices
    /\ x_fixed_vals' = self.x_fixed_vals
    /\ x_guesses_full' = self.x_guesses_full
    /\ x_names' = self.x_names
    /\ x_scales' = self.x_scales

\* ------------------------------------------------------------ properties
dim(self) == self.dim_full - Len(self.x_fixed_indices)

\* mutant: the free indices in descending order
x_free_indices_descending(self) ==
    LET up == sorted((0..(self.dim_full - 1)) \ Range(self.x_fixed_indices))
    IN  [k \in DOMAIN up |-> up[Len(up) + 1 - k]]

x_free_indices(self) ==
    sorted((0..(self.dim_full - 1)) \ Range(self.x_fixed_indices))

lb(self) == NpTake(self.lb_full, x_free_indices(self)).v

ub(self) == NpTake(self.ub_full, x_free_indices(self)).v

x_guesses(self) ==
    [shape |-> <<self.x_guesses_full.shape[1], Len(x_free_indices(self))>>,
     v |-> [r \in DOMAIN self.x_guesses_full.v |->
               NpTake(self.x_guesses_full.v[r], x_free_indices(self)).v]]

\* ------------------------------------------------------------ normalize
\* mutant: a scalar bound is broadcast and the fixed values are written over it
normalize_bound_fixed(self, b_full, g) ==
    IF Len(b_full) = 1
    THEN NpPut(Filled(self.dim_full, b_full[1]), self.x_fixed_indices, self.x_fixed_vals)
    ELSE [raised |-> NoError, v |-> b_full]

\* mutant: bounds of full length get the fixed values written at the fixed
\* indices
normalize_bound_overwrite(self, b_full, g) ==
    IF Len(b_full) = 1
    THEN [raised |-> NoError, v |-> Filled(self.dim_full, b_full[1])]
    ELSE IF Len(b_full) # self.dim_full
    THEN LET free == x_free_indices(self)
             reduced == NpTake(g, free).v
             s1 == NpPut(g, free, reduced)
         IN  IF s1.raised # NoError THEN s1
             ELSE NpPut(s1.v, self.x_fixed_indices, self.x_fixed_vals)
    ELSE NpPut(b_full, self.x_fixed_indices, self.x_fixed_vals)

\* lines 156-161 (and 163-168): one bound array; g is what np.empty holds
normalize_bound(self, b_full, g) ==
    IF Len(b_full) = 1
    THEN [raised |-> NoError, v |-> Filled(self.dim_full, b_full[1])]
    ELSE IF Len(b_full) # self.dim_full
    THEN LET free == x_free_indices(self)
             \* self.lb reads the array np.empty has just made
             reduced == NpTake(g, free).v
             s1 == NpPut(g, free, reduced)
         IN  IF s1.raised # NoError THEN s1
             ELSE NpPut(s1.v, self.x_fixed_indices, self.x_fixed_vals)
    ELSE [raised |-> NoError, v |-> b_full]

\* lines 170-174
normalize_guesses(self) ==
    IF self.x_guesses_full.shape[2] # self.dim_full
    THEN NpPutCols(Filled2(self.x_guesses_full.shape[1], self.dim_full, nan),
                   x_free_indices(self), self.x_guesses_full)
    ELSE [raised |-> NoError, v |-> self.x_guesses_full]

\* mutant: the check of x_names is missing
sanity_checks_no_names(self) ==
    IF Len(self.lb_full) # self.dim_full THEN "AssertionError"
    ELSE IF Len(self.ub_full) # self.dim_full THEN "AssertionError"
    ELSE IF Len(self.x_scales) # self.dim_full THEN "AssertionError"
    ELSE IF Len(self.x_fixed_indices) # Len(self.x_fixed_vals) THEN "AssertionError"
    ELSE NoError

\* lines 183-195
sanity_checks(self) ==
    IF Len(self.lb_full) # self.dim_full THEN "AssertionError"
    ELSE IF Len(self.ub_full) # self.dim_full THEN "AssertionError"
    ELSE IF Len(self.x_scales) # self.dim_full THEN "AssertionError"
    ELSE IF Len(self.x_names) # self.dim_full THEN "AssertionError"
    ELSE IF Len(self.x_fixed_indices) # Len(self.x_fixed_vals) THEN "AssertionError"
    ELSE NoError

\* what the objective is told (lines 177-181)
update_from_problem(self) ==
    [dim_full |-> self.dim_full,
     x_free_indices |-> x_free_indices(self),
     x_fixed_indices |-> self.x_fixed_indices,
     x_fixed_vals |-> self.x_fixed_vals]

\* normalize(): the fields afterwards, the exception it raised, and the
\* notifications it sent; gl and gu are the contents np.empty comes with
normalize(self, gl, gu) ==
    LET l == normalize_bound(self, self.lb_full, gl)
        s1 == [self EXCEPT !.lb_full = l.v]
        u == normalize_bound(s1, s1.ub_full, gu)
        s2 == [s1 EXCEPT !.ub_full = u.v]
        g == normalize_guesses(s2)
        s3 == [s2 EXCEPT !.x_guesses_full = g.v]
    IN  IF l.raised # NoError
        THEN [self |-> s1, raised |-> l.raised, updates |-> <<>>]
        ELSE IF u.raised # NoError
        THEN [self |-> s2, raised |-> u.raised, updates |-> <<>>]
        ELSE IF g.raised # NoError
        THEN [self |-> s2, raised |-> g.raised, updates |-> <<>>]
        ELSE [self |-> s3, raised |-> sanity_checks(s3),
              updates |-> <<update_from_problem(s3)>>]

\* the contents np.empty(n) may come with, where normalize reads them: the
\* same unwritten value at every position
EmptyArrays(b_full, n) ==
    IF Len(b_full) # 1 /\ Len(b_full) # n
    THEN {Filled(n, g) : g \in Garbage}
    ELSE {Filled(n, 0)}

\* ------------------------------------------------------------ __init__
\* f'x{j}'
XNames == <<"x0", "x1", "x2", "x3", "x4", "x5", "x6", "x7">>

\* lines 91-126: the fields before the first normalize()
init_fields(a) ==
    LET d == IF a.dim_full # None THEN a.dim_full[1] ELSE Len(a.lb)
    IN  [dim_full |-> d,
         lb_full |-> a.lb,
         ub_full |-> a.ub,
         x_fixed_indices |-> IF a.x_fixed_indices = None THEN <<>> ELSE a.x_fixed_indices[1],
         x_fixed_vals |-> IF a.x_fixed_vals = None THEN <<>> ELSE a.x_fixed_vals[1],
         x_guesses_full |-> IF a.x_guesses = None THEN Filled2(0, d, 0) ELSE a.x_guesses[1],
         x_names |-> IF a.objective_x_names # None THEN a.objective_x_names[1]
                     ELSE IF a.x_names = None THEN SubSeq(XNames, 1, d)
                     ELSE a.x_names[1],
         x_scales |-> IF a.x_scales = None THEN Filled(d, "lin") ELSE a.x_scales[1]]

\* Problem.__init__
Problem_init(a, gl, gu) == normalize(init_fields(a), gl, gu)

\* ------------------------------------------------------------ fix / unfix
\* mutant: the value of a parameter fixed before is written at i_index, the
\* position in the argument list, not at the position of the parameter
RECURSIVE fix_loop_by_position(_, _, _, _, _)
fix_loop_by_position(fi, fv, parameter_indices, parameter_vals, k) ==
    IF k > Len(parameter_indices)
    THEN [x_fixed_indices |-> fi, x_fixed_vals |-> fv, raised |-> NoError]
    ELSE LET i_parameter == parameter_indices[k]
         IN  IF i_parameter \in Range(fi)
             THEN IF k > Len(parameter_vals) \/ k > Len(fv)
                  THEN [x_fixed_indices |-> fi, x_fixed_vals |-> fv, raised |-> "IndexError"]
                  ELSE fix_loop_by_position(fi, [fv EXCEPT ![k] = parameter_vals[k]],
                                            parameter_indices, parameter_vals, k + 1)
             ELSE IF k > Len(parameter_vals)
                  THEN [x_fixed_indices |-> Append(fi, i_parameter), x_fixed_vals |-> fv,
                        raised |-> "IndexError"]
                  ELSE fix_loop_by_position(Append(fi, i_parameter), Append(fv, parameter_vals[k]),
                                            parameter_indices, parameter_vals, k + 1)

\* lines 211-220: the loop from its k-th iteration on
RECURSIVE fix_loop(_, _, _, _, _)
fix_loop(fi, fv, parameter_indices, parameter_vals, k) ==
    IF k > Len(parameter_indices)
    THEN [x_fixed_indices |-> fi, x_fixed_vals |-> fv, raised |-> NoError]
    ELSE LET i_parameter == parameter_indices[k]
         IN  IF i_parameter \in Range(fi)
             THEN IF k > Len(parameter_vals)
                  THEN [x_fixed_indices |-> fi, x_fixed_vals |-> fv, raised |-> "IndexError"]
                  ELSE IF index(fi, i_parameter) > Len(fv)
                  THEN [x_fixed_indices |-> fi, x_fixed_vals |-> fv, raised |-> "IndexError"]
                  ELSE fix_loop(fi, [fv EXCEPT ![index(fi, i_parameter)] = parameter_vals[k]],
                                parameter_indices, parameter_vals, k + 1)
             ELSE IF k > Len(parameter_vals)
                  THEN [x_fixed_indices |-> Append(fi, i_parameter), x_fixed_vals |-> fv,
                        raised |-> "IndexError"]
                  ELSE fix_loop(Append(fi, i_parameter), Append(fv, parameter_vals[k]),
                                parameter_indices, parameter_vals, k + 1)

\* Problem.fix_parameters
fix_parameters(self, parameter_indices, parameter_vals, gl, gu) ==
    LET r == fix_loop(self.x_fixed_indices, self.x_fixed_vals,
                      parameter_indices, parameter_vals, 1)
        s == [self EXCEPT !.x_fixed_indices = r.x_fixed_indices,
                          !.x_fixed_vals = r.x_fixed_vals]
    IN  IF r.raised # NoError
        THEN [self |-> s, raised |-> r.raised, updates |-> <<>>]
        ELSE normalize(s, gl, gu)

\* lines 236-240: the loop from its k-th iteration on
RECURSIVE unfix_loop(_, _, _, _)
unfix_loop(fi, fv, parameter_indices, k) ==
    IF k > Len(parameter_indices)
    THEN [x_fixed_indices |-> fi, x_fixed_vals |-> fv, raised |-> NoError]
    ELSE LET i_parameter == parameter_indices[k]
         IN  IF i_parameter \in Range(fi)
             THEN LET i_index == index(fi, i_parameter)
                  IN  IF i_index > Len(fv)
                      THEN [x_fixed_indices |-> pop(fi, i_index), x_fixed_vals |-> fv,
                            raised |-> "IndexError"]
                      ELSE unfix_loop(pop(fi, i_index), pop(fv, i_index),
                                      parameter_indices, k + 1)
             ELSE unfix_loop(fi, fv, parameter_indices, k + 1)

\* mutant: the closing normalize() is missing
unfix_parameters_no_normalize(self, parameter_indices, gl, gu) ==
    LET r == unfix_loop(self.x_fixed_indices, self.x_fixed_vals, parameter_indices, 1)
    IN  [self |-> [self EXCEPT !.x_fixed_indices = r.x_fixed_indices,
                               !.x_fixed_vals = r.x_fixed_vals],
         raised |-> r.raised, updates |-> <<>>]

\* Problem.unfix_parameters
unfix_parameters(self, parameter_indices, gl, gu) ==
    LET r == unfix_loop(self.x_fixed_indices, self.x_fixed_vals, parameter_indices, 1)
        s == [self EXCEPT !.x_fixed_indices = r.x_fixed_indices,
                          !.x_fixed_vals = r.x_fixed_vals]
    IN  IF r.raised # NoError
        THEN [self |-> s, raised |-> r.raised, updates |-> <<>>]
        ELSE normalize(s, gl, gu)

\* ------------------------------------------------------------ projections
\* lines 272-273: the fresh full vector, and the fresh batch of r full rows
NanVector(n) == Filled(n, nan)

NanBatch(r, n) == Filled2(r, n, nan)

\* a 1-D array of the values s, and a 2-D array of the rows m
Vec(s) == [shape |-> <<Len(s)>>, v |-> s]

Mat(m, c) == [shape |-> <<Len(m), c>>, v |-> m]

\* Problem.get_full_vector; x is None or Some(array), fixed_vals (the
\* argument x_fixed_vals) is None or Some(sequence)
get_full_vector(self, x, fixed_vals) ==
    IF x = None THEN [raised |-> NoError, v |-> None]
    ELSE LET xa == x[1]
             free == x_free_indices(self)
         IN  IF xa.shape[1] = self.dim_full
             THEN [raised |-> NoError, v |-> Some(xa)]
             ELSE IF Len(xa.shape) = 1
             THEN LET s1 == NpPut(NanVector(self.dim_full), free, xa.v)
                      s2 == IF fixed_vals = None THEN s1
                            ELSE NpPut(s1.v, self.x_fixed_indices, fixed_vals[1])
                  IN  IF s1.raised # NoError THEN [raised |-> s1.raised, v |-> None]
                      ELSE IF s2.raised # NoError THEN [raised |-> s2.raised, v |-> None]
                      ELSE [raised |-> NoError, v |-> Some(Vec(s2.v))]
             ELSE LET s1 == NpPutCols(NanBatch(xa.shape[1], self.dim_full), free, xa)
                      s2 == IF fixed_vals = None THEN s1
                            ELSE NpPutEachRow(s1.v, self.x_fixed_indices, fixed_vals[1])
                  IN  IF s1.raised # NoError THEN [raised |-> s1.raised, v |-> None]
                      ELSE IF s2.raised # NoError THEN [raised |-> s2.raised, v |-> None]
                      ELSE [raised |-> NoError, v |-> Some(s2.v)]

\* Problem.get_reduced_vector; x_full is None or Some(1-D array)
get_reduced_vector(self, x_full) ==
    IF x_full = None THEN [raised |-> NoError, v |-> None]
    ELSE LET xa == x_full[1]
             free == x_free_indices(self)
         IN  IF xa.shape[1] = dim(self)
             THEN [raised |-> NoError, v |-> Some(xa)]
             ELSE IF \E k \in DOMAIN free : ~NpIndexOK(xa.shape[1], free[k])
             THEN [raised |-> "IndexError", v |-> None]
             ELSE [raised |-> NoError,
                   v |-> Some(Vec([k \in DOMAIN free |-> xa.v[free[k] + 1]]))]

\* Problem.full_index_to_free_index
full_index_to_free_index(self, full_index) ==
    LET fixed_indices == self.x_fixed_indices
    IN  IF full_index \in Range(fixed_indices)
        THEN [raised |-> "ValueError", v |-> None]
        ELSE [raised |-> NoError,
              v |-> Some(full_index
                         - Cardinality({k \in DOMAIN fixed_indices :
                                           fixed_indices[k] < full_index}))]

\* a[np.ix_(idxs, idxs)] = b for 2-D arrays a and b: b broadcasts along an
\* axis where it has length one
NpPutIx(a, idxs, b) ==
    IF b.shape[1] \notin {Len(idxs), 1} \/ b.shape[2] \notin {Len(idxs), 1}
    THEN [raised |-> "ValueError", v |-> a]
    ELSE IF \E k \in DOMAIN idxs : ~NpIndexOK(a.shape[1], idxs[k]) \/ ~NpIndexOK(a.shape[2], idxs[k])
    THEN [raised |-> "IndexError", v |-> a]
    ELSE LET rhits(r) == {k \in DOMAIN idxs : NpPos(a.shape[1], idxs[k]) = r}
             chits(c) == {k \in DOMAIN idxs : NpPos(a.shape[2], idxs[k]) = c}
             last(H) == CHOOSE k \in H : \A j \in H : j <= k
             val(i, j) == b.v[IF b.shape[1] = 1 THEN 1 ELSE i][IF b.shape[2] = 1 THEN 1 ELSE j]
         IN  [raised |-> NoError,
              v |-> [shape |-> a.shape,
                     v |-> [r \in DOMAIN a.v |->
                              [c \in DOMAIN a.v[r] |->
                                 IF rhits(r) = {} \/ chits(c) = {} THEN a.v[r][c]
                                 ELSE val(last(rhits(r)), last(chits(c)))]]]]

\* lines 299-300: the fresh full matrix
NanMatrix(n) == Filled2(n, n, nan)

\* Problem.get_full_matrix; x is None or Some(2-D array)
get_full_matrix(self, x) ==
    IF x = None THEN [raised |-> NoError, v |-> None]
    ELSE LET xa == x[1]
         IN  IF xa.shape[1] = self.dim_full
             THEN [raised |-> NoError, v |-> Some(xa)]
             ELSE LET s == NpPutIx(NanMatrix(self.dim_full), x_free_indices(self), xa)
                  IN  IF s.raised # NoError THEN [raised |-> s.raised, v |-> None]
                      ELSE [raised |-> NoError, v |-> Some(s.v)]

\* Problem.get_reduced_matrix; x_full is None or Some(2-D array)
get_reduced_matrix(self, x_full) ==
    IF x_full = None THEN [raised |-> NoError, v |-> None]
    ELSE LET xa == x_full[1]
             free == x_free_indices(self)
         IN  IF xa.shape[1] = dim(self)
             THEN [raised |-> NoError, v |-> Some(xa)]
             ELSE IF \E k \in DOMAIN free :
                        ~NpIndexOK(xa.shape[1], free[k]) \/ ~NpIndexOK(xa.shape[2], free[k])
             THEN [raised |-> "IndexError", v |-> None]
             ELSE [raised |-> NoError,
                   v |-> Some(Mat([a \in DOMAIN free |->
                                     [b \in DOMAIN free |->
                                        xa.v[NpPos(xa.shape[1], free[a])][NpPos(xa.shape[2], free[b])]]],
                                  Len(free)))]

\* ------------------------------------------------------------ arguments
\* the index lists and value lists of a call that keeps to the documented
\* arguments: indices of parameters, one value for each
IndexLists(self) == SeqsUpTo(0..(self.dim_full - 1), MaxArgs)

ValueLists(n) == SeqsOfLen(Vals, n)

\* arrays handed to the projections: vectors of n values, and batches of
\* r rows of n values, the rows alternately s and its complement
Vectors(n) == IF n < 0 THEN {} ELSE {Vec(s) : s \in SeqsOfLen(Vals, n)}

Flip(s) == [k \in DOMAIN s |-> 1 - s[k]]

Batches(n) ==
    IF n < 0 THEN {}
    ELSE UNION {{Mat([k \in 1..r |-> IF k % 2 = 1 THEN s ELSE Flip(s)], n) :
                    s \in SeqsOfLen(Vals, n)} : r \in 1..MaxRows}

\* square matrices handed to the matrix projections: n rows of n values, all
\* different
Matrices(n) ==
    IF n < 0 THEN {}
    ELSE {Mat([a \in 1..n |-> [b \in 1..n |-> v + (a - 1) * n + b]], n) : v \in Vals}

InitArgs(d, l, u, fi, fv, g) ==
    [lb |-> l, ub |-> u, dim_full |-> d,
     x_fixed_indices |-> fi, x_fixed_vals |-> fv,
     x_guesses |-> g, x_names |-> None, x_scales |-> None,
     objective_x_names |-> None]

\* the lists of fixed parameters a construction is given: parameters of the
\* Problem, each once
FixedArgs(d) == InjSeqsUpTo(0..(d - 1), MaxInitFixed)

\* bounds and guesses of any length up to MaxDim; dim_full given or left to
\* be taken from lb
Ramp(n, v) == [k \in 1..n |-> v + k - 1]

LbArgs == {Ramp(n, v) : n \in 0..MaxDim, v \in Vals}

UbArgs == {Ramp(n, 1) : n \in 0..MaxDim}

GuessArgs ==
    {None} \cup {Some(Mat(<<Ramp(w, 1)>>, w)) : w \in 0..MaxDim}
           \cup {Some(Mat(<<Ramp(w, 1), Ramp(w, 0)>>, w)) : w \in 0..MaxDim}

DimArgs == {None} \cup {Some(d) : d \in 1..MaxDim}

\* ------------------------------------------------------------ actions
NoCall == [op |-> "none", a |-> <<>>]

NoResult == [raised |-> NoError, v |-> None]

Init ==
    /\ pc = "new"
    /\ dim_full = 0
    /\ lb_full = <<>>
    /\ ub_full = <<>>
    /\ x_fixed_indices = <<>>
    /\ x_fixed_vals = <<>>
    /\ x_guesses_full = Filled2(0, 0, 0)
    /\ x_names = <<>>
    /\ x_scales = <<>>
    /\ call = NoCall
    /\ ret = NoResult
    /\ updates = <<>>
    /\ pre = [dim_full |-> 0, lb_full |-> <<>>, ub_full |-> <<>>,
              x_fixed_indices |-> <<>>, x_fixed_vals |-> <<>>,
              x_guesses_full |-> Filled2(0, 0, 0), x_names |-> <<>>, x_scales |-> <<>>]

\* a call that may change the Problem: r is what the method did
Mutate(op, a, r) ==
    /\ Store(r.self)
    /\ updates' = r.updates
    /\ call' = [op |-> op, a |-> a]
    /\ ret' = [raised |-> r.raised, v |-> None]
    /\ pre' = Self

\* a call of a method that only reads
Read(op, a, r) ==
    /\ call' = [op |-> op, a |-> a]
    /\ ret' = r
    /\ updates' = <<>>
    /\ pre' = Self
    /\ pc' = "called"
    /\ UNCHANGED fields

Construct(a) ==
    /\ pc = "new"
    /\ LET f == init_fields(a)
       IN  \E gl \in EmptyArrays(f.lb_full, f.dim_full), gu \in EmptyArrays(f.ub_full, f.dim_full) :
              LET r == Problem_init(a, gl, gu)
              IN  /\ Mutate("__init__", a, r)
                  /\ pc' = IF r.raised = NoError THEN "called" ELSE "failed"

Call_fix_parameters(parameter_indices, parameter_vals) ==
    /\ pc = "ready"
    /\ \E gl \in EmptyArrays(lb_full, dim_full), gu \in EmptyArrays(ub_full, dim_full) :
          Mutate("fix_parameters",
                 [parameter_indices |-> parameter_indices, parameter_vals |-> parameter_vals],
                 fix_parameters(Self, parameter_indices, parameter_vals, gl, gu))
    /\ pc' = "called"

Call_unfix_parameters(parameter_indices) ==
    /\ pc = "ready"
    /\ \E gl \in EmptyArrays(lb_full, dim_full), gu \in EmptyArrays(ub_full, dim_full) :
          Mutate("unfix_parameters", [parameter_indices |-> parameter_indices],
                 unfix_parameters(Self, parameter_indices, gl, gu))
    /\ pc' = "called"

Call_get_full_vector(x, f) ==
    /\ pc = "ready"
    /\ Read("get_full_vector", [x |-> x, x_fixed_vals |-> f], get_full_vector(Self, x, f))

Call_get_reduced_vector(x_full) ==
    /\ pc = "ready"
    /\ Read("get_reduced_vector", [x_full |-> x_full], get_reduced_vector(Self, x_full))

Call_full_index_to_free_index(full_index) ==
    /\ pc = "ready"
    /\ Read("full_index_to_free_index", [full_index |-> full_index],
            full_index_to_free_index(Self, full_index))

Call_get_full_matrix(x) ==
    /\ pc = "ready"
    /\ Read("get_full_matrix", [x |-> x], get_full_matrix(Self, x))

Call_get_reduced_matrix(x_full) ==
    /\ pc = "ready"
    /\ Read("get_reduced_matrix", [x_full |-> x_full], get_reduced_matrix(Self, x_full))

\* the caller takes what the call returned or raised and goes on; the
\* record of the call is dropped
Return ==
    /\ pc = "called"
    /\ pc' = "ready"
    /\ call' = NoCall
    /\ ret' = NoResult
    /\ updates' = <<>>
    /\ pre' = Self
    /\ UNCHANGED fields

Next ==
    \/ /\ pc = "new"
       /\ \E d \in 1..MaxDim : \E fi \in FixedArgs(d) : \E fv \in ValueLists(Len(fi)) :
             Construct(InitArgs(Some(d), <<0>>, <<1>>, Some(fi), Some(fv), None))
    \/ /\ pc = "ready"
       /\ \E pi \in IndexLists(Self) : \E pv \in ValueLists(Len(pi)) :
             Call_fix_parameters(pi, pv)
    \/ /\ pc = "ready"
       /\ \E pi \in IndexLists(Self) : Call_unfix_parameters(pi)
    \/ /\ pc = "ready"
       /\ \E x \in {None} \cup {Some(y) : y \in Vectors(dim(Self))} :
          \E f \in {None} \cup {Some(v) : v \in ValueLists(Len(x_fixed_indices))} :
             Call_get_full_vector(x, f)
    \/ /\ pc = "ready"
       /\ \E x \in {Some(y) : y \in Batches(dim(Self))} :
          \E f \in {None} \cup {Some(v) : v \in ValueLists(Len(x_fixed_indices))} :
             Call_get_full_vector(x, f)
    \/ /\ pc = "ready"
       /\ \E x \in {None} \cup {Some(y) : y \in Vectors(dim_full) \cup Vectors(dim(Self))} :
             Call_get_reduced_vector(x)
    \/ /\ pc = "ready"
       /\ \E i \in 0..(dim_full - 1) : Call_full_index_to_free_index(i)
    \/ /\ pc = "ready"
       /\ \E x \in {None} \cup {Some(y) : y \in Matrices(dim(Self))} :
             Call_get_full_matrix(x)
    \/ /\ pc = "ready"
       /\ \E x \in {None} \cup {Some(y) : y \in Matrices(dim_full) \cup Matrices(dim(Self))} :
             Call_get_reduced_matrix(x)
    \/ Return

Spec == Init /\ [][Next]_vars

\* Construction alone, from bounds and guesses of any length.
NextCtor ==
    \/ /\ pc = "new"
       /\ \E da \in DimArgs, l \in LbArgs, u \in UbArgs, g \in GuessArgs :
          \E fi \in FixedArgs(IF da = None THEN Len(l) ELSE da[1]) :
          \E fv \in ValueLists(Len(fi)) :
             Construct(InitArgs(da, l, u, Some(fi), Some(fv), g))
    \/ Return

SpecCtor == Init /\ [][NextCtor]_vars

\* Calls of fix_parameters and unfix_parameters with any arguments the code
\* takes (lines 211-220 and 236-240 test neither the range of an index nor
\* the length of the value list): the indices of the parameters and -1, an
\* integer that is no index in 0 .. dim_full-1, and value lists of any length.
AnyIndexLists(self) == SeqsUpTo((-1)..(self.dim_full - 1), MaxAnyArgs)

AnyValueLists == SeqsUpTo(Vals, MaxAnyArgs)

NextAny ==
    \/ /\ pc = "new"
       /\ \E d \in 1..MaxAnyDim : \E fi \in FixedArgs(d) : \E fv \in ValueLists(Len(fi)) :
             Construct(InitArgs(Some(d), <<0>>, <<1>>, Some(fi), Some(fv), None))
    \/ /\ pc = "ready"
       /\ \E pi \in AnyIndexLists(Self) : \E pv \in AnyValueLists :
             Call_fix_parameters(pi, pv)
    \/ /\ pc = "ready"
       /\ \E pi \in AnyIndexLists(Self) : Call_unfix_parameters(pi)
    \/ /\ pc = "ready"
       /\ \E x \in {None} \cup {Some(y) : y \in Vectors(dim(Self))} :
          \E f \in {None} \cup {Some(v) : v \in ValueLists(Len(x_fixed_indices))} :
             Call_get_full_vector(x, f)
    \/ /\ pc = "ready"
       /\ \E x \in {None} \cup {Some(y) : y \in Vectors(dim_full) \cup Vectors(dim(Self))} :
             Call_get_reduced_vector(x)
    \/ /\ pc = "ready"
       /\ \E i \in 0..(dim_full - 1) : Call_full_index_to_free_index(i)
    \/ /\ pc = "ready"
       /\ \E x \in {None} \cup {Some(y) : y \in Matrices(dim(Self))} :
             Call_get_full_matrix(x)
    \/ /\ pc = "ready"
       /\ \E x \in {None} \cup {Some(y) : y \in Matrices(dim_full) \cup Matrices(dim(Self))} :
             Call_get_reduced_matrix(x)
    \/ Return

SpecAny == Init /\ [][NextAny]_vars

\* Construction with names, scales and fixed values of any length: names of
\* the caller and of the objective of length dim_full-1 .. dim_full+1 or left
\* out, bounds of any length up to dim_full.
NameArgs(d) == {None} \cup {Some(SubSeq(XNames, 1, n)) : n \in (d - 1)..(d + 1)}

ScaleArgs(d) == {None} \cup {Some(Filled(n, "lin")) : n \in (d - 1)..(d + 1)}

FixedValArgs == SeqsUpTo(Vals, MaxInitFixed + 1)

NextLens ==
    \/ /\ pc = "new"
       /\ \E d \in 1..MaxDim : \E n \in 0..d :
          \E fi \in FixedArgs(d), fv \in FixedValArgs :
          \E nm \in NameArgs(d), sc \in ScaleArgs(d), on \in NameArgs(d) :
             Construct([lb |-> Ramp(n, 0), ub |-> <<1>>, dim_full |-> Some(d),
                        x_fixed_indices |-> Some(fi), x_fixed_vals |-> Some(fv),
                        x_guesses |-> None, x_names |-> nm, x_scales |-> sc,
                        objective_x_names |-> on])
    \/ Return

SpecLens == Init /\ [][NextLens]_vars

\* Calls of fix_parameters and unfix_parameters, with any arguments, on a
\* Problem constructed with a bound for every parameter and with no guess,
\* a guess for every parameter or a guess for the free ones.
FrameGuessArgs(d, n) ==
    {None} \cup {Some(Mat(<<Ramp(w, 1)>>, w)) : w \in {d, d - n}}

NextFrame ==
    \/ /\ pc = "new"
       /\ \E d \in 1..MaxAnyDim : \E fi \in FixedArgs(d) : \E fv \in ValueLists(Len(fi)) :
          \E g \in FrameGuessArgs(d, Len(fi)) :
             Construct(InitArgs(Some(d), Ramp(d, 0), Ramp(d, 1), Some(fi), Some(fv), g))
    \/ /\ pc = "ready"
       /\ \E pi \in AnyIndexLists(Self) : \E pv \in AnyValueLists :
             Call_fix_parameters(pi, pv)
    \/ /\ pc = "ready"
       /\ \E pi \in AnyIndexLists(Self) : Call_unfix_parameters(pi)
    \/ Return

SpecFrame == Init /\ [][NextFrame]_vars

\* ------------------------------------------------------------ claims
\* a call of op has just ended
Done(op) == pc = "called" /\ call.op = op

Constructed == pc \in {"ready", "called"}

StrictlyAscending(s) == \A a, b \in DOMAIN s : a < b => s[a] < s[b]

\* the one array np.empty can matter for once the bounds have full length
Empty == Filled(dim_full, 0)

\* the values given for the fixed parameters are one for each, or left out
OnePerFixed(f) == f = None \/ Len(f[1]) = Len(x_fixed_indices)

\* C1: in every state of a constructed Problem, reached by any calls of
\* fix_parameters and unfix_parameters, x_free_indices and x_fixed_indices
\* are disjoint and together are exactly 0 .. dim_full-1.
C1_Partition ==
    Constructed =>
        LET free == Range(x_free_indices(Self))
            fixed == Range(x_fixed_indices)
        IN  /\ free \cap fixed = {}
            /\ free \cup fixed = 0..(dim_full - 1)

\* C2: get_reduced_vector undoes get_full_vector on a reduced vector x of
\* length dim, whether the values for the fixed parameters are left out or
\* given, one for each; and get_full_vector undoes get_reduced_vector on a
\* full vector at every free index.
C2_RoundTrip ==
    /\ (Done("get_full_vector") /\ call.a.x # None /\ call.a.x[1].shape = <<dim(Self)>>
          /\ OnePerFixed(call.a.x_fixed_vals))
         => /\ ret.raised = NoError
            /\ get_reduced_vector(Self, ret.v) = [raised |-> NoError, v |-> call.a.x]
    /\ (Done("get_reduced_vector") /\ call.a.x_full # None
          /\ call.a.x_full[1].shape = <<dim_full>>)
         => /\ ret.raised = NoError
            /\ LET back == get_full_vector(Self, ret.v, None)
                   free == x_free_indices(Self)
               IN  /\ back.raised = NoError
                   /\ \A k \in DOMAIN free :
                         back.v[1].v[free[k] + 1] = call.a.x_full[1].v[free[k] + 1]

\* C3: after a construction with lb (ub) of reduced length dim, neither 1
\* nor dim_full, problem.lb (problem.ub) equals the bounds passed in and
\* lb_full (ub_full) holds x_fixed_vals[k] at x_fixed_indices[k].
C3_ReducedBoundsKept ==
    (Done("__init__") /\ ret.raised = NoError)
        => /\ (Len(call.a.lb) \notin {1, dim_full} /\ Len(call.a.lb) = dim(Self))
                => /\ lb(Self) = call.a.lb
                   /\ \A k \in DOMAIN x_fixed_indices :
                         lb_full[x_fixed_indices[k] + 1] = x_fixed_vals[k]
           /\ (Len(call.a.ub) \notin {1, dim_full} /\ Len(call.a.ub) = dim(Self))
                => /\ ub(Self) = call.a.ub
                   /\ \A k \in DOMAIN x_fixed_indices :
                         ub_full[x_fixed_indices[k] + 1] = x_fixed_vals[k]

\* C4: from any state, a fix_parameters call repeated with the same
\* arguments leaves the Problem as the first call left it, and
\* unfix_parameters of parameters that are free changes nothing and raises
\* nothing.
C4_Idempotent ==
    /\ Done("fix_parameters")
         => fix_parameters(Self, call.a.parameter_indices,
                           call.a.parameter_vals, Empty, Empty).self = Self
    /\ (Done("unfix_parameters")
          /\ Range(call.a.parameter_indices) \cap Range(pre.x_fixed_indices) = {})
         => /\ ret.raised = NoError
            /\ Self = pre

\* C5: from any state, fix_parameters of parameters in 0 .. dim_full-1 that
\* are free, with a value for each, followed by unfix_parameters of the same
\* parameters, restores the Problem as it was before the fix: the same
\* x_fixed_indices in the same order, x_fixed_vals, bounds and guesses.
C5_FixThenUnfix ==
    (Done("fix_parameters")
       /\ Len(call.a.parameter_vals) = Len(call.a.parameter_indices)
       /\ Range(call.a.parameter_indices) \subseteq 0..(dim_full - 1)
       /\ Range(call.a.parameter_indices) \cap Range(pre.x_fixed_indices) = {})
        => LET undone == unfix_parameters(Self, call.a.parameter_indices, Empty, Empty)
           IN  /\ undone.self = pre
               /\ x_free_indices(undone.self) = x_free_indices(pre)
               /\ dim(undone.self) = dim(pre)

\* C6: a construction, fix_parameters or unfix_parameters call that
\* completes has called update_from_problem exactly once, and what the
\* objective received is the partition the Problem has at the end of the
\* call.
C6_ObjectiveNotified ==
    (pc = "called" /\ call.op \in {"__init__", "fix_parameters", "unfix_parameters"}
       /\ ret.raised = NoError)
        => /\ Len(updates) = 1
           /\ updates[Len(updates)] = [dim_full |-> dim_full,
                                       x_free_indices |-> x_free_indices(Self),
                                       x_fixed_indices |-> x_fixed_indices,
                                       x_fixed_vals |-> x_fixed_vals]

\* C6 witness: an unfix_parameters call has completed, has freed a parameter
\* and has left another fixed.
C6_Witness ==
    /\ Done("unfix_parameters")
    /\ ret.raised = NoError
    /\ Len(pre.x_fixed_indices) > Len(x_fixed_indices)
    /\ Len(x_fixed_indices) > 0
    /\ Len(updates) = 1

\* C7: full_index_to_free_index(i) for i in 0 .. dim_full-1 raises ValueError
\* when i is fixed, and otherwise returns i minus the number of fixed indices
\* below i, which is the position of i in x_free_indices; it changes nothing.
C7_FullIndexToFreeIndex ==
    Done("full_index_to_free_index")
        => LET i == call.a.full_index
           IN  /\ Self = pre
               /\ IF i \in Range(x_fixed_indices)
                  THEN ret.raised = "ValueError"
                  ELSE /\ ret.raised = NoError
                       /\ ret.v = Some(i - Cardinality({j \in Range(x_fixed_indices) : j < i}))
                       /\ ret.v[1] + 1 \in DOMAIN x_free_indices(Self)
                       /\ x_free_indices(Self)[ret.v[1] + 1] = i

\* C8: get_full_vector of a reduced vector x of length dim < dim_full
\* returns a vector of length dim_full with x[k] at x_free_indices[k], with
\* the supplied value k at x_fixed_indices[k] when values are supplied and
\* NaN at every fixed index when they are not; the Problem is not changed.
C8_FullVector ==
    (Done("get_full_vector") /\ call.a.x # None /\ call.a.x[1].shape = <<dim(Self)>>
       /\ dim(Self) < dim_full /\ OnePerFixed(call.a.x_fixed_vals))
        => LET x == call.a.x[1].v
               f == call.a.x_fixed_vals
               free == x_free_indices(Self)
           IN  /\ ret.raised = NoError
               /\ Self = pre
               /\ ret.v[1].shape = <<dim_full>>
               /\ Len(ret.v[1].v) = dim_full
               /\ \A k \in DOMAIN x :
                     /\ k \in DOMAIN free
                     /\ ret.v[1].v[free[k] + 1] = x[k]
               /\ \A k \in DOMAIN x_fixed_indices :
                     /\ x_fixed_indices[k] \in 0..(dim_full - 1)
                     /\ ret.v[1].v[x_fixed_indices[k] + 1] = IF f = None THEN nan ELSE f[1][k]

\* C9: get_full_vector of a batch of r rows of length dim, for any r,
\* returns r rows of length dim_full, each row scattered into
\* x_free_indices; an input comes back unchanged only when its rows already
\* have length dim_full.
C9_BatchFullVector ==
    (Done("get_full_vector") /\ call.a.x # None /\ Len(call.a.x[1].shape) = 2
       /\ call.a.x[1].shape[2] = dim(Self))
        => LET x == call.a.x[1]
               free == x_free_indices(Self)
           IN  /\ ret.raised = NoError
               /\ ret.v[1].shape = <<x.shape[1], dim_full>>
               /\ \A r \in DOMAIN x.v : \A k \in DOMAIN free :
                     ret.v[1].v[r][free[k] + 1] = x.v[r][k]
               /\ ret.v[1] = x => x.shape[2] = dim_full

\* C10: x_free_indices is the ascending list of the indices that are not
\* fixed, whatever the order in which they were fixed and unfixed, and
\* get_reduced_vector(x_full)[k] is x_full[x_free_indices[k]].
C10_ReducedOrder ==
    /\ Constructed
         => /\ StrictlyAscending(x_free_indices(Self))
            /\ Range(x_free_indices(Self)) = (0..(dim_full - 1)) \ Range(x_fixed_indices)
    /\ (Done("get_reduced_vector") /\ call.a.x_full # None
          /\ call.a.x_full[1].shape = <<dim_full>>)
         => LET free == x_free_indices(Self)
            IN  /\ ret.raised = NoError
                /\ ret.v[1].shape = <<Len(free)>>
                /\ \A k \in DOMAIN free : ret.v[1].v[k] = call.a.x_full[1].v[free[k] + 1]

\* C10 witness: a full vector was reduced in a Problem whose parameters were
\* fixed out of index order and which has free parameters left.
C10_Witness ==
    /\ Done("get_reduced_vector")
    /\ call.a.x_full # None
    /\ call.a.x_full[1].shape = <<dim_full>>
    /\ \E a, b \in DOMAIN x_fixed_indices : a < b /\ x_fixed_indices[a] > x_fixed_indices[b]
    /\ Len(x_free_indices(Self)) > 0

\* the lengths normalize tests last: names, scales, fixed indices and values
Mismatch(self) ==
    \/ Len(self.x_names) # self.dim_full
    \/ Len(self.x_scales) # self.dim_full
    \/ Len(self.x_fixed_indices) # Len(self.x_fixed_vals)

\* C11: a construction (or fix_parameters / unfix_parameters call) that ends
\* with len(x_names) # dim_full, len(x_scales) # dim_full or
\* len(x_fixed_indices) # len(x_fixed_vals) never returns normally, and when
\* normalize has run to its last step it raises AssertionError.
C11_MismatchRaises ==
    (pc \in {"called", "failed"}
       /\ call.op \in {"__init__", "fix_parameters", "unfix_parameters"}
       /\ Mismatch(Self))
        => /\ ret.raised # NoError
           /\ call.op = "__init__" => pc = "failed"
           /\ Len(updates) = 1 => ret.raised = "AssertionError"

\* C11 witness: a construction given one name too few, everything else
\* consistent, has raised AssertionError.
C11_Witness ==
    /\ pc = "failed"
    /\ call.op = "__init__"
    /\ ret.raised = "AssertionError"
    /\ Len(x_names) = dim_full - 1
    /\ Len(x_scales) = dim_full
    /\ Len(x_fixed_indices) = Len(x_fixed_vals)
    /\ Len(lb_full) = dim_full
    /\ Len(ub_full) = dim_full

\* C12: a construction given an lb or ub whose length is none of 1, dim and
\* dim_full raises in normalize and returns no Problem.
C12_BadBoundsRaise ==
    (pc \in {"called", "failed"} /\ call.op = "__init__"
       /\ (\/ Len(call.a.lb) \notin {1, dim(Self), dim_full}
           \/ Len(call.a.ub) \notin {1, dim(Self), dim_full}))
        => /\ pc = "failed"
           /\ ret.raised # NoError

\* C13: after a construction given guesses whose rows are not dim_full wide,
\* x_guesses_full has as many rows, of width dim_full, with the k-th value of
\* a row at column x_free_indices[k] and NaN at every fixed column, and
\* problem.x_guesses is the guesses passed in.
C13_ReducedGuesses ==
    (Done("__init__") /\ ret.raised = NoError /\ call.a.x_guesses # None
       /\ call.a.x_guesses[1].shape[2] # dim_full)
        => LET g == call.a.x_guesses[1]
               free == x_free_indices(Self)
           IN  /\ x_guesses_full.shape = <<g.shape[1], dim_full>>
               /\ \A r \in DOMAIN g.v :
                     /\ Len(x_guesses_full.v[r]) = dim_full
                     /\ \A k \in DOMAIN g.v[r] :
                           /\ k \in DOMAIN free
                           /\ x_guesses_full.v[r][free[k] + 1] = g.v[r][k]
                     /\ \A k \in DOMAIN x_fixed_indices :
                           x_guesses_full.v[r][x_fixed_indices[k] + 1] = nan
               /\ x_guesses(Self) = g

\* C14: get_full_matrix of a reduced dim x dim matrix m, dim < dim_full, is
\* dim_full x dim_full with m[a][b] at (x_free_indices[a], x_free_indices[b])
\* and NaN wherever the row or the column is fixed, and changes nothing;
\* and in every state get_reduced_matrix(get_full_matrix(m)) is m.
C14_MatrixProjections ==
    (Done("get_full_matrix") /\ call.a.x # None
       /\ call.a.x[1].shape = <<dim(Self), dim(Self)>>)
        => LET m == call.a.x[1]
               free == x_free_indices(Self)
           IN  /\ ret.raised = NoError
               /\ Self = pre
               /\ get_reduced_matrix(Self, ret.v) = [raised |-> NoError, v |-> call.a.x]
               /\ dim(Self) < dim_full
                    => /\ ret.v[1].shape = <<dim_full, dim_full>>
                       /\ \A a, b \in 1..dim(Self) :
                             /\ a \in DOMAIN free /\ b \in DOMAIN free
                             /\ ret.v[1].v[free[a] + 1][free[b] + 1] = m.v[a][b]
                       /\ \A r, c \in 1..dim_full :
                             (r - 1 \in Range(x_fixed_indices) \/ c - 1 \in Range(x_fixed_indices))
                                => ret.v[1].v[r][c] = nan

\* C15: a construction given a single-element lb (ub) and dim_full = n
\* returns with lb_full (ub_full) of length n, every entry the value given,
\* whatever parameters are fixed.
C15_ScalarBroadcast ==
    (Done("__init__") /\ ret.raised = NoError /\ call.a.dim_full # None)
        => /\ dim_full = call.a.dim_full[1]
           /\ Len(call.a.lb) = 1 => lb_full = Filled(call.a.dim_full[1], call.a.lb[1])
           /\ Len(call.a.ub) = 1 => ub_full = Filled(call.a.dim_full[1], call.a.ub[1])

\* C15 witness: a construction with dim_full = 3, lb = 1 and a parameter
\* fixed to 0 has returned.
C15_Witness ==
    /\ Done("__init__")
    /\ ret.raised = NoError
    /\ call.a.dim_full = Some(3)
    /\ call.a.lb = <<1>>
    /\ Len(x_fixed_indices) = 1
    /\ x_fixed_vals = <<0>>

\* C16: after any calls of fix_parameters and unfix_parameters, with any
\* integers for indices, every fixed index is in 0 .. dim_full-1, and dim is
\* the number of free indices and the length of lb and ub.
C16_FixedInRange ==
    Constructed
        => /\ Range(x_fixed_indices) \subseteq 0..(dim_full - 1)
           /\ dim(Self) = Len(x_free_indices(Self))
           /\ dim(Self) = Len(lb(Self))
           /\ dim(Self) = Len(ub(Self))

\* C17: in every state after a construction, the state a fix_parameters call
\* leaves when it raises included, x_fixed_indices holds no index twice and
\* is as long as x_fixed_vals.
C17_FixedInSync ==
    Constructed
        => /\ \A a, b \in DOMAIN x_fixed_indices :
                 x_fixed_indices[a] = x_fixed_indices[b] => a = b
           /\ Len(x_fixed_indices) = Len(x_fixed_vals)

\* C18: x_fixed_vals[k] is the value last passed for x_fixed_indices[k].
\* Stated call by call, for the calls that return normally: a construction
\* pairs the indices and values as given; fix_parameters leaves every index
\* fixed before at its position, pairs each index of the call with the last
\* value the call gives for it, and leaves the value of every other index;
\* unfix_parameters removes the indices of the call and leaves the order
\* and the values of the others.
C18_Pairing ==
    /\ (Done("__init__") /\ ret.raised = NoError)
         => /\ x_fixed_indices = call.a.x_fixed_indices[1]
            /\ x_fixed_vals = call.a.x_fixed_vals[1]
    /\ (Done("fix_parameters") /\ ret.raised = NoError)
         => LET pi == call.a.parameter_indices
                pv == call.a.parameter_vals
            IN  /\ Len(x_fixed_vals) = Len(x_fixed_indices)
                /\ \A k \in DOMAIN pre.x_fixed_indices :
                      /\ k \in DOMAIN x_fixed_indices
                      /\ x_fixed_indices[k] = pre.x_fixed_indices[k]
                /\ \A k \in DOMAIN x_fixed_indices :
                      LET ks == {j \in DOMAIN pi : pi[j] = x_fixed_indices[k]}
                      IN  IF ks # {}
                          THEN LET j == CHOOSE j \in ks : \A i \in ks : i <= j
                               IN  j \in DOMAIN pv /\ x_fixed_vals[k] = pv[j]
                          ELSE /\ k \in DOMAIN pre.x_fixed_vals
                               /\ x_fixed_vals[k] = pre.x_fixed_vals[k]
    /\ (Done("unfix_parameters") /\ ret.raised = NoError)
         => LET pi == call.a.parameter_indices
            IN  /\ Len(x_fixed_vals) = Len(x_fixed_indices)
                /\ x_fixed_indices = SelectSeq(pre.x_fixed_indices, LAMBDA i : i \notin Range(pi))
                /\ \A k \in DOMAIN x_fixed_indices :
                      LET j == index(pre.x_fixed_indices, x_fixed_indices[k])
                      IN  j \in DOMAIN pre.x_fixed_vals /\ x_fixed_vals[k] = pre.x_fixed_vals[j]

\* C18 witness: the first of two fixed parameters was fixed again, to another
\* value.
C18_Witness ==
    /\ Done("fix_parameters")
    /\ ret.raised = NoError
    /\ Len(pre.x_fixed_indices) = 2
    /\ call.a.parameter_indices = <<pre.x_fixed_indices[1]>>
    /\ x_fixed_vals[1] # pre.x_fixed_vals[1]
    /\ x_fixed_indices = pre.x_fixed_indices

\* C19: a call of fix_parameters or unfix_parameters on a constructed
\* Problem, returning or raising, leaves dim_full, lb_full, ub_full, x_names,
\* x_scales and x_guesses_full as they were before the call.
C19_Frame ==
    (Done("fix_parameters") \/ Done("unfix_parameters"))
        => /\ dim_full = pre.dim_full
           /\ lb_full = pre.lb_full
           /\ ub_full = pre.ub_full
           /\ x_names = pre.x_names
           /\ x_scales = pre.x_scales
           /\ x_guesses_full = pre.x_guesses_full

\* C19 witness: a Problem with a guess had a free parameter fixed to a value
\* that is neither its lower bound nor its guess.
C19_Witness ==
    /\ Done("fix_parameters")
    /\ ret.raised = NoError
    /\ x_guesses_full.shape[1] = 1
    /\ \E k \in DOMAIN x_fixed_indices :
          LET i == x_fixed_indices[k]
          IN  /\ i \in 0..(dim_full - 1)
              /\ i \notin Range(pre.x_fixed_indices)
              /\ k \in DOMAIN x_fixed_vals
              /\ x_fixed_vals[k] # lb_full[i + 1]
              /\ x_fixed_vals[k] # x_guesses_full.v[1][i + 1]

==========================================================================
